---- MODULE Spec2Model ----
(***************************************************************************)
(* A model of the fuid crate: the base-62 codec (base62.rs) and the Fuid    *)
(* wrapper (fuid.rs).  A u128 is a little-endian sequence of 16-bit limbs,  *)
(* so that wrapping and overflow are those of the 128-bit type; a string is *)
(* a sequence of Unicode code points and as_bytes() is its UTF-8 encoding.  *)
(***************************************************************************)
EXTENDS Integers, Sequences, FiniteSets, TLC

VARIABLES overflow_checks, prev, last, pair

vars == <<overflow_checks, prev, last, pair>>

(***************************************************************************)
(* u128 arithmetic                                                         *)
(***************************************************************************)
\* the width of the wrapped integer
BITS == 128

\* one limb holds 16 bits
Limb == 2^16

LimbsOf == 1..(BITS \div 16)

U128Zero == [i \in LimbsOf |-> 0]

\* k as u128, for a k below 2^31
U128Of(k) == [i \in LimbsOf |-> IF i = 1 THEN k % Limb
                                  ELSE IF i = 2 THEN k \div Limb
                                  ELSE 0]

\* u128::MAX
U128Max == [i \in LimbsOf |-> Limb - 1]

IsZero(x) == \A i \in LimbsOf : x[i] = 0

\* x * k for a k below 2^15: the low 128 bits and what was carried out of them
WideMul(x, k) ==
    LET t1 == x[1] * k
        t2 == (x[2] * k) + (t1 \div Limb)
        t3 == (x[3] * k) + (t2 \div Limb)
        t4 == (x[4] * k) + (t3 \div Limb)
        t5 == (x[5] * k) + (t4 \div Limb)
        t6 == (x[6] * k) + (t5 \div Limb)
        t7 == (x[7] * k) + (t6 \div Limb)
        t8 == (x[8] * k) + (t7 \div Limb)
    IN  [val |-> <<t1 % Limb, t2 % Limb, t3 % Limb, t4 % Limb,
                   t5 % Limb, t6 % Limb, t7 % Limb, t8 % Limb>>,
         carry |-> t8 \div Limb]

\* x + y: the low 128 bits and the carry out of them
WideAdd(x, y) ==
    LET t1 == x[1] + y[1]
        t2 == x[2] + y[2] + (t1 \div Limb)
        t3 == x[3] + y[3] + (t2 \div Limb)
        t4 == x[4] + y[4] + (t3 \div Limb)
        t5 == x[5] + y[5] + (t4 \div Limb)
        t6 == x[6] + y[6] + (t5 \div Limb)
        t7 == x[7] + y[7] + (t6 \div Limb)
        t8 == x[8] + y[8] + (t7 \div Limb)
    IN  [val |-> <<t1 % Limb, t2 % Limb, t3 % Limb, t4 % Limb,
                   t5 % Limb, t6 % Limb, t7 % Limb, t8 % Limb>>,
         carry |-> t8 \div Limb]

\* num / k and num % k for a k below 2^15
DivRem(x, k) ==
    LET t8 == x[8]
        t7 == ((t8 % k) * Limb) + x[7]
        t6 == ((t7 % k) * Limb) + x[6]
        t5 == ((t6 % k) * Limb) + x[5]
        t4 == ((t5 % k) * Limb) + x[4]
        t3 == ((t4 % k) * Limb) + x[3]
        t2 == ((t3 % k) * Limb) + x[2]
        t1 == ((t2 % k) * Limb) + x[1]
    IN  [quot |-> <<t1 \div k, t2 \div k, t3 \div k, t4 \div k,
                    t5 \div k, t6 \div k, t7 \div k, t8 \div k>>,
         rem |-> t1 % k]

\* u128's Ord::cmp: the most significant limb that differs decides
U128Cmp(x, y) ==
    IF x = y THEN "Equal"
    ELSE LET top == CHOOSE i \in LimbsOf :
                       x[i] # y[i] /\ \A j \in LimbsOf : j > i => x[j] = y[j]
         IN  IF x[top] < y[top] THEN "Less" ELSE "Greater"

(***************************************************************************)
(* values and results                                                      *)
(***************************************************************************)
None == [t |-> "None"]
U128(n) == [t |-> "u128", v |-> n]
Str(s) == [t |-> "String", v |-> s]
FuidOf(n) == [t |-> "Fuid", v |-> n]
Ok(x) == [t |-> "Ok", v |-> x]
Err(e) == [t |-> "Err", v |-> e]
\* a panic: the call returns nothing
Panic == [t |-> "Panic"]

InvalidBase62Byte(c, p) == [t |-> "InvalidBase62Byte", c |-> c, p |-> p]
ArithmeticOverflow == [t |-> "ArithmeticOverflow"]

(***************************************************************************)
(* strings                                                                 *)
(***************************************************************************)
Reverse(s) == [i \in 1..Len(s) |-> s[Len(s) + 1 - i]]

\* the UTF-8 encoding of one code point below 2^16
Utf8(c) ==
    IF c < 128 THEN <<c>>
    ELSE IF c < 2048 THEN <<192 + (c \div 64), 128 + (c % 64)>>
    ELSE <<224 + (c \div 4096), 128 + ((c \div 64) % 64), 128 + (c % 64)>>

RECURSIVE as_bytes(_)
as_bytes(s) == IF Len(s) = 0 THEN <<>> ELSE Utf8(Head(s)) \o as_bytes(Tail(s))

IsCont(b) == b >= 128 /\ b < 192

\* String::from_utf8: the code points of a well-formed byte sequence
RECURSIVE from_utf8(_)
from_utf8(b) ==
    IF Len(b) = 0 THEN Ok(<<>>)
    ELSE LET b1 == b[1]
             n == IF b1 < 128 THEN 1
                  ELSE IF b1 >= 194 /\ b1 < 224 THEN 2
                  ELSE IF b1 >= 224 /\ b1 < 240 THEN 3
                  ELSE 0
         IN  IF n = 0 \/ Len(b) < n \/ \E j \in 2..n : ~IsCont(b[j])
             THEN Err("FromUtf8Error")
             ELSE LET c == IF n = 1 THEN b1
                           ELSE IF n = 2 THEN ((b1 - 192) * 64) + (b[2] - 128)
                           ELSE ((b1 - 224) * 4096) + ((b[2] - 128) * 64) + (b[3] - 128)
                      rest == from_utf8(SubSeq(b, n + 1, Len(b)))
                  IN  IF rest.t = "Ok" THEN Ok(<<c>> \o rest.v) ELSE rest

(***************************************************************************)
(* the inputs the callers below hand to the library                        *)
(***************************************************************************)
\* the longest run of one repeated symbol in an input string
MaxFill == 22

\* the integers 0..MaxSmall are inputs
MaxSmall == 130

\* the integers 0..MaxOrd are compared pairwise
MaxOrd == 70

\* '{', U+00E9 and '0' may lead a string
LeftChars == {123, 233, 48}

\* '1', '7', '8', 'z' may follow
DigitChars == {49, 55, 56, 122}

\* runs of '0' or of 'z'
FillChars == {48, 122}

FillLens == {0, 1, 2} \cup ((MaxFill - 2)..MaxFill)

\* '0', '{' and '!' may end a string
TailChars == {48, 123, 33}

OneOrNone(S) == {<<>>} \cup {<<c>> : c \in S}

Run(c, k) == [i \in 1..k |-> c]

PatternStrings ==
    {l \o d \o Run(f, k) \o t :
        l \in OneOrNone(LeftChars), d \in OneOrNone(DigitChars),
        f \in FillChars, k \in FillLens, t \in OneOrNone(TailChars)}

\* the strings of the crate's tests and doc tests: "F0ob4rZ", "ds{Z455f",
\* "6fTiplVKIi6bJFe8rTXPcu", "5z1JeaxqBJ4Y3pEXh2B8Sj", "ab!", "A"
TestStrings ==
    { <<70, 48, 111, 98, 52, 114, 90>>,
      <<100, 115, 123, 90, 52, 53, 53, 102>>,
      <<54, 102, 84, 105, 112, 108, 86, 75, 73, 105, 54, 98, 74, 70, 101, 56,
        114, 84, 88, 80, 99, 117>>,
      <<53, 122, 49, 74, 101, 97, 120, 113, 66, 74, 52, 89, 51, 112, 69, 88,
        104, 50, 66, 56, 83, 106>>,
      <<97, 98, 33>>,
      <<65>> }

\* "7n42DGM5Tflk9n8mt7Fhc8": the string one above the encoding of u128::MAX
AboveMax ==
    <<55, 110, 52, 50, 68, 71, 77, 53, 84, 102, 108, 107, 57, 110, 56, 109,
      116, 55, 70, 104, 99, 56>>

StrInputs == PatternStrings \cup TestStrings \cup {AboveMax}

\* the longest input, in bytes
MaxStrBytes == MaxFill + 4

\* 852751187393, the integer of test_encode
TestNum == <<32193, 35822, 198, 0, 0, 0, 0, 0>>

NumInputs ==
    {U128Of(k) : k \in 0..MaxSmall}
    \cup [LimbsOf -> {0, Limb - 1}]
    \cup {[i \in LimbsOf |-> IF i = j THEN 1 ELSE 0] : j \in LimbsOf}
    \cup {TestNum}

OrdInputs ==
    {U128Of(k) : k \in 0..MaxOrd}
    \cup {x \in [LimbsOf -> {0, Limb - 1}] : \A i \in LimbsOf : i < 6 => x[i] = 0}
    \cup {TestNum}

(***************************************************************************)
(* base62.rs                                                               *)
(***************************************************************************)
BASE == 62

\* the table with the lower-case letters before the upper-case ones
ALPHABET_LowerFirst == [i \in 1..BASE |-> IF i <= 10 THEN 47 + i
                                         ELSE IF i <= 36 THEN 86 + i
                                         ELSE 28 + i]

\* b'0'..b'9', b'A'..b'Z', b'a'..b'z'
ALPHABET == [i \in 1..BASE |-> IF i <= 10 THEN 47 + i
                               ELSE IF i <= 36 THEN 54 + i
                               ELSE 60 + i]

\* <[u8]>::binary_search over the half-open range lo..hi (0-based)
RECURSIVE SearchRange(_, _, _, _)
SearchRange(arr, c, lo, hi) ==
    IF lo >= hi THEN [found |-> FALSE, idx |-> lo]
    ELSE LET mid == lo + ((hi - lo) \div 2)
         IN  IF arr[mid + 1] = c THEN [found |-> TRUE, idx |-> mid]
             ELSE IF arr[mid + 1] < c THEN SearchRange(arr, c, mid + 1, hi)
             ELSE SearchRange(arr, c, lo, mid)

binary_search(arr, c) == SearchRange(arr, c, 0, Len(arr))

\* BASE.pow(0) .. BASE.pow(n): each power is the one before times BASE, wrapped
\* to 128 bits, with whether a multiplication overflowed on the way
RECURSIVE Powers(_)
Powers(n) ==
    IF n = 0 THEN <<[val |-> U128Of(1), ovf |-> FALSE]>>
    ELSE LET t == Powers(n - 1)
             m == WideMul(t[n].val, BASE)
         IN  Append(t, [val |-> m.val, ovf |-> t[n].ovf \/ m.carry # 0])

\* the powers any input of the model asks for
PowTable == Powers(MaxStrBytes)

\* BASE.pow(i): the wrapped power and whether the multiplication overflowed
pow(i) == PowTable[i + 1]

\* (v as u128).checked_mul(num), v an index into ALPHABET
checked_mul(v, num) ==
    LET m == WideMul(num, v)
    IN  IF m.carry = 0 THEN [some |-> TRUE, val |-> m.val]
        ELSE [some |-> FALSE, val |-> U128Zero]

\* the loop run once more than it should: a '0' is pushed after the last digit
RECURSIVE EncodeLoop_ExtraDigit(_)
EncodeLoop_ExtraDigit(num) ==
    IF IsZero(num) THEN <<ALPHABET[1]>>
    ELSE LET d == DivRem(num, BASE)
         IN  <<ALPHABET[d.rem + 1]>> \o EncodeLoop_ExtraDigit(d.quot)

\* the while loop of encode: the bytes pushed, least significant first
RECURSIVE EncodeLoop(_)
EncodeLoop(num) ==
    IF IsZero(num) THEN <<>>
    ELSE LET d == DivRem(num, BASE)
         IN  <<ALPHABET[d.rem + 1]>> \o EncodeLoop(d.quot)

\* encode without its early return for zero
encode_NoZeroCase(num) ==
    LET r == from_utf8(Reverse(EncodeLoop(num)))
    IN  IF r.t = "Ok" THEN Str(r.v) ELSE Panic

\* pub fn encode(mut num: u128) -> String; Panic is the unwrap failing
encode(num) ==
    IF IsZero(num) THEN Str(<<48>>)
    ELSE LET r == from_utf8(Reverse(EncodeLoop(num)))
         IN  IF r.t = "Ok" THEN Str(r.v) ELSE Panic

\* the loop reporting the enumeration index, counted from the end, as the position
RECURSIVE DecodeLoop_IndexAsPosition(_, _, _, _)
DecodeLoop_IndexAsPosition(rb, i, result, checks) ==
    IF i >= Len(rb) THEN Ok(U128(result))
    ELSE LET c == rb[i + 1]
             num == pow(i)
             bs == binary_search(ALPHABET, c)
         IN  IF num.ovf /\ checks THEN Panic
             ELSE IF bs.found
             THEN LET z == checked_mul(bs.idx, num.val)
                      sum == WideAdd(result, z.val)
                  IN  IF ~z.some THEN Err(ArithmeticOverflow)
                      ELSE IF sum.carry # 0 /\ checks THEN Panic
                      ELSE DecodeLoop_IndexAsPosition(rb, i + 1, sum.val, checks)
             ELSE Err(InvalidBase62Byte(c, i + 1))

\* the for loop of decode over string.as_bytes().iter().rev().enumerate(),
\* rb the reversed bytes and checks the build's overflow-checks setting
RECURSIVE DecodeLoop(_, _, _, _)
DecodeLoop(rb, i, result, checks) ==
    IF i >= Len(rb) THEN Ok(U128(result))
    ELSE LET c == rb[i + 1]
             num == pow(i)
             bs == binary_search(ALPHABET, c)
         IN  IF num.ovf /\ checks THEN Panic
             ELSE IF bs.found
             THEN LET z == checked_mul(bs.idx, num.val)
                      sum == WideAdd(result, z.val)
                  IN  IF ~z.some THEN Err(ArithmeticOverflow)
                      ELSE IF sum.carry # 0 /\ checks THEN Panic
                      ELSE DecodeLoop(rb, i + 1, sum.val, checks)
             ELSE Err(InvalidBase62Byte(c, Len(rb) - i))

\* decode scanning from the start of the string: the .rev() left out
decode_NoRev(string) == DecodeLoop(as_bytes(string), 0, U128Zero, overflow_checks)

\* pub fn decode(string: &str) -> Result<u128, DecodeError>
decode(string) == DecodeLoop(Reverse(as_bytes(string)), 0, U128Zero, overflow_checks)

(***************************************************************************)
(* fuid.rs                                                                 *)
(***************************************************************************)
\* Result::unwrap: the Ok value, or a panic
Unwrap(r) == IF r.t = "Ok" THEN r.v ELSE Panic

\* pub fn with_str(s: &str) -> Result<Fuid, base62::DecodeError>
with_str(s) ==
    LET r == decode(s)
    IN  IF r.t = "Ok" THEN Ok(FuidOf(r.v.v)) ELSE r

\* pub fn with_u128(i: u128) -> Fuid
with_u128(i) == FuidOf(i)

\* pub fn as_u128(&self) -> u128
as_u128(f) == U128(f.v)

\* impl fmt::Display for Fuid, through ToString::to_string
to_string(f) == encode(f.v)

\* impl FromStr for Fuid
from_str(s) == with_str(s)

\* impl From<&str> for Fuid
FromStrRef(val) == Unwrap(from_str(val))

\* impl From<String> for Fuid
FromString(val) == Unwrap(with_str(val))

\* impl From<u128> for Fuid
FromU128(i) == with_u128(i)

\* fuid!($s) is Fuid::from($s): From<&str> for a string, From<u128> for an integer
fuid_macro(x) == IF x.t = "String" THEN FromStrRef(x.v) ELSE FromU128(x.v)

\* #[derive(PartialOrd, Ord)] on struct Fuid(u128): the order of the one field
FuidCmp(a, b) == U128Cmp(a.v, b.v)

(***************************************************************************)
(* callers: each action is one call of the library on the value the caller *)
(* holds, the input or what the call before returned                       *)
(***************************************************************************)
Call(op, arg, ret) == [op |-> op, arg |-> arg, ret |-> ret]

\* what the caller holds after a call: a Result's Ok value, or the value itself
Val(r) == IF r.t = "Ok" THEN r.v ELSE r

Cur == Val(last.ret)

Init ==
    /\ overflow_checks \in BOOLEAN
    /\ prev = Call("none", None, None)
    /\ \E x \in {U128(n) : n \in NumInputs} \cup {Str(s) : s \in StrInputs} :
          last = Call("input", None, x)
    /\ pair = None

Step(op, ret) ==
    /\ prev' = last
    /\ last' = Call(op, Cur, ret)
    /\ UNCHANGED <<overflow_checks, pair>>

Encode == Cur.t = "u128" /\ Step("encode", encode(Cur.v))

Decode == Cur.t = "String" /\ Step("decode", decode(Cur.v))

WithStr == Cur.t = "String" /\ Step("with_str", with_str(Cur.v))

ParseStr == Cur.t = "String" /\ Step("from_str", from_str(Cur.v))

FromRef == Cur.t = "String" /\ Step("From<&str>", FromStrRef(Cur.v))

FromOwned == Cur.t = "String" /\ Step("From<String>", FromString(Cur.v))

FromInt == Cur.t = "u128" /\ Step("From<u128>", FromU128(Cur.v))

Macro == Cur.t \in {"String", "u128"} /\ Step("fuid!", fuid_macro(Cur))

WithU128 == Cur.t = "u128" /\ Step("with_u128", with_u128(Cur.v))

AsU128 == Cur.t = "Fuid" /\ Step("as_u128", as_u128(Cur))

Display == Cur.t = "Fuid" /\ Step("to_string", to_string(Cur))

Next ==
    \/ Encode
    \/ Decode
    \/ WithStr
    \/ ParseStr
    \/ FromRef
    \/ FromOwned
    \/ FromInt
    \/ Macro
    \/ WithU128
    \/ AsU128
    \/ Display

Spec == Init /\ [][Next]_vars

(***************************************************************************)
(* a caller that holds two identifiers, compares them and formats them     *)
(***************************************************************************)
InitOrd ==
    /\ overflow_checks \in BOOLEAN
    /\ prev = Call("none", None, None)
    /\ last = Call("none", None, None)
    /\ \E x \in OrdInputs, y \in OrdInputs :
          pair = [a |-> with_u128(x), b |-> with_u128(y), ord |-> "None",
                  sa |-> None, sb |-> None]

Compare ==
    /\ pair.ord = "None"
    /\ pair' = [pair EXCEPT !.ord = FuidCmp(pair.a, pair.b)]
    /\ UNCHANGED <<overflow_checks, prev, last>>

Format ==
    /\ pair.sa = None
    /\ pair' = [pair EXCEPT !.sa = to_string(pair.a), !.sb = to_string(pair.b)]
    /\ UNCHANGED <<overflow_checks, prev, last>>

NextOrd == Compare \/ Format

SpecOrd == InitOrd /\ [][NextOrd]_vars

(***************************************************************************)
(* what the specification says, stated without the code's algorithms       *)
(***************************************************************************)
\* c is one of [0-9A-Za-z]
InAlphabet(c) == (c >= 48 /\ c <= 57) \/ (c >= 65 /\ c <= 90) \/ (c >= 97 /\ c <= 122)

\* the value of a symbol: '0'-'9' are 0-9, 'A'-'Z' 10-35, 'a'-'z' 36-61
SymbolValue(c) == IF c <= 57 THEN c - 48 ELSE IF c <= 90 THEN c - 55 ELSE c - 61

AllSymbols(s) == \A i \in 1..Len(s) : InAlphabet(s[i])

\* the positional value of s[from..] by Horner's rule from the most significant
\* symbol, acc the value so far: fits is whether it stays within 128 bits
RECURSIVE Horner(_, _, _)
Horner(s, from, acc) ==
    IF from > Len(s) THEN [fits |-> TRUE, val |-> acc]
    ELSE LET m == WideMul(acc, 62)
             a == WideAdd(m.val, U128Of(SymbolValue(s[from])))
         IN  IF m.carry # 0 \/ a.carry # 0 THEN [fits |-> FALSE, val |-> U128Zero]
             ELSE Horner(s, from + 1, a.val)

\* the positional base-62 value of a string of symbols
Value(s) == Horner(s, 1, U128Zero)

\* no leading '0', except for "0" itself; not empty
Canonical(s) ==
    /\ Len(s) >= 1
    /\ AllSymbols(s)
    /\ (s[1] = 48 => Len(s) = 1)
    /\ Value(s).fits

\* x < y as integers: x + (2^128 - 1 - y) stays below 2^128 - 1
NumLess(x, y) ==
    LET d == WideAdd(x, [i \in LimbsOf |-> (Limb - 1) - y[i]])
    IN  d.carry = 0 /\ d.val # U128Max

\* s < t in the byte-wise lexicographic order of str
LexLess(s, t) ==
    \E i \in 1..(Len(t)) :
        /\ \A j \in 1..(i - 1) : j <= Len(s) /\ s[j] = t[j]
        /\ (i > Len(s) \/ s[i] < t[i])

\* the distances from the end (0 for the last) of the bytes outside the alphabet
BadAt(b) == {i \in 0..(Len(b) - 1) : ~InAlphabet(b[Len(b) - i])}

Least(S) == CHOOSE i \in S : \A j \in S : i <= j

\* v * 62^i for a symbol value v: whether it exceeds 128 bits
RECURSIVE TermTooBig(_, _)
TermTooBig(x, i) ==
    IF i = 0 THEN FALSE
    ELSE LET m == WideMul(x, 62)
         IN  IF m.carry # 0 THEN TRUE ELSE TermTooBig(m.val, i - 1)

\* the distances from the end of the symbols that fail: a byte outside the
\* alphabet, or a symbol whose term v * 62^i exceeds 128 bits
FailAt(b) ==
    {i \in 0..(Len(b) - 1) :
        LET c == b[Len(b) - i]
        IN  ~InAlphabet(c)
            \/ (SymbolValue(c) > 0 /\ TermTooBig(U128Of(SymbolValue(c)), i))}

(***************************************************************************)
(* the claims                                                              *)
(***************************************************************************)
\* C1: round trip: decoding what encode returned for n succeeds with exactly n,
\* for every n, 0 and 2^128-1 included.
C1_RoundTrip ==
    (last.op = "decode" /\ prev.op = "encode") => last.ret = Ok(prev.arg)

C1_Witness ==
    /\ overflow_checks
    /\ prev.op = "encode" /\ prev.arg = U128(U128Max)
    /\ last.op = "decode" /\ last.ret = Ok(U128(U128Max))

\* C2: alphabet closure: decode(s) returns a success exactly when every character
\* of s is one of the 62 symbols and the positional value of s is at most
\* 2^128-1, and an error result in every other case.
C2_AlphabetClosure ==
    last.op = "decode" =>
        IF AllSymbols(last.arg.v) /\ Value(last.arg.v).fits
        THEN last.ret.t = "Ok"
        ELSE last.ret.t = "Err"

\* C3: overflow: decode of a string of symbols whose value exceeds 2^128-1
\* returns ArithmeticOverflow; never a wrapped value, never an abort.
C3_Overflow ==
    (last.op = "decode" /\ AllSymbols(last.arg.v) /\ ~Value(last.arg.v).fits)
        => last.ret = Err(ArithmeticOverflow)

\* C4 as claimed: for every string s with a character outside the alphabet,
\* decode fails with InvalidSymbol(c, p), the p-th character of s being c and c
\* not in the alphabet.
C4_InvalidSymbolAlways ==
    (last.op = "decode" /\ ~AllSymbols(last.arg.v)) =>
        /\ last.ret.t = "Err"
        /\ last.ret.v.t = "InvalidBase62Byte"
        /\ last.ret.v.p \in 1..Len(last.arg.v)
        /\ last.arg.v[last.ret.v.p] = last.ret.v.c
        /\ ~InAlphabet(last.ret.v.c)

\* C4 as amended: for every string s with a byte outside the alphabet, decode
\* never succeeds; an InvalidSymbol(c, p) it returns names the rightmost such
\* byte c (as a char) and p = len - i, its 1-based byte position; and it does
\* return that error whenever that byte is at a distance i <= 21 from the end.
C4_InvalidSymbolRightmost ==
    LET b == as_bytes(last.arg.v)
        i == Least(BadAt(b))
        e == Err(InvalidBase62Byte(b[Len(b) - i], Len(b) - i))
    IN  (last.op = "decode" /\ BadAt(b) # {}) =>
            /\ last.ret.t # "Ok"
            /\ (last.ret.t = "Err" /\ last.ret.v.t = "InvalidBase62Byte") => last.ret = e
            /\ i <= 21 => last.ret = e

C4_Witness ==
    /\ overflow_checks
    /\ last.op = "decode"
    /\ Len(as_bytes(last.arg.v)) = 22
    /\ last.ret = Err(InvalidBase62Byte(123, 1))

\* C5: canonical form: encode returns, for every n, a non-empty string of at
\* most 22 alphabet symbols, whose first symbol is not '0' when n > 0.
C5_CanonicalForm ==
    last.op = "encode" =>
        /\ last.ret.t = "String"
        /\ Len(last.ret.v) >= 1
        /\ Len(last.ret.v) <= 22
        /\ AllSymbols(last.ret.v)
        /\ (last.arg.v # U128Zero => last.ret.v[1] # 48)

C5_Witness ==
    /\ last.op = "encode"
    /\ last.arg = U128(U128Max)
    /\ last.ret.t = "String"
    /\ Len(last.ret.v) = 22

\* C6: zero and empty input: encode(0) is "0"; decode("0") and decode("") both
\* succeed with 0; encode returns the empty string for no input.
C6_ZeroAndEmpty ==
    /\ (last.op = "encode" /\ last.arg = U128(U128Zero)) => last.ret = Str(<<48>>)
    /\ (last.op = "decode" /\ last.arg.v \in {<<48>>, <<>>})
           => last.ret = Ok(U128(U128Zero))
    /\ last.op = "encode" => last.ret # Str(<<>>)

C6_Witness ==
    /\ prev.op = "encode" /\ prev.arg = U128(U128Zero) /\ prev.ret = Str(<<48>>)
    /\ last.op = "decode" /\ last.ret = Ok(U128(U128Zero))

\* C7: identifier round trip: with_str succeeds on every canonical string and
\* to_string of the identifier gives the string back; with_str fails (returns
\* no identifier) for every string with a character outside the alphabet or
\* whose value would overflow.
C7_FuidRoundTrip ==
    /\ (last.op = "with_str" /\ Canonical(last.arg.v)) => last.ret.t = "Ok"
    /\ (last.op = "to_string" /\ prev.op = "with_str" /\ Canonical(prev.arg.v))
           => last.ret = prev.arg
    /\ (last.op = "with_str"
        /\ (~AllSymbols(last.arg.v) \/ ~Value(last.arg.v).fits))
           => last.ret.t # "Ok"

\* C8: ordering: a < b exactly when the wrapped integer of a is below that of b,
\* and for encodings of the same length the byte-wise order of the strings is
\* the numeric order.
C8_Ordering ==
    pair # None =>
    /\ pair.ord # "None" => (pair.ord = "Less" <=> NumLess(pair.a.v, pair.b.v))
    /\ (pair.sa # None /\ Len(pair.sa.v) = Len(pair.sb.v))
           => (LexLess(pair.sa.v, pair.sb.v) <=> NumLess(pair.a.v, pair.b.v))

\* two identifiers whose encodings differ in length and whose strings are in
\* the opposite order to their integers
C8_Witness ==
    /\ pair # None
    /\ pair.ord = "Less"
    /\ pair.sa # None
    /\ Len(pair.sa.v) # Len(pair.sb.v)
    /\ LexLess(pair.sb.v, pair.sa.v)

\* C9: fail-fast construction: fuid!, From<&str> and From<String> yield the
\* identifier with_str(s) returns when it succeeds, and abort exactly when
\* with_str(s) returns an error; fuid!(n) yields the identifier wrapping n.
C9_FailFast ==
    /\ (last.op \in {"From<&str>", "From<String>", "fuid!"} /\ last.arg.t = "String")
           => LET w == with_str(last.arg.v)
              IN  /\ last.ret.t \in {"Fuid", "Panic"}
                  /\ w.t = "Ok" => last.ret = w.v
                  /\ last.ret = Panic <=> w.t = "Err"
    /\ (last.op = "fuid!" /\ last.arg.t = "u128") => last.ret = FuidOf(last.arg.v)

\* C10: error precedence: the first failing symbol met from the end of the
\* string decides: an invalid byte there is the one reported, a term that
\* overflows there gives ArithmeticOverflow, whatever lies to its left.
C10_Precedence ==
    LET b == as_bytes(last.arg.v)
        i == Least(FailAt(b))
        c == b[Len(b) - i]
    IN  (last.op = "decode" /\ FailAt(b) # {}) =>
            IF InAlphabet(c) THEN last.ret = Err(ArithmeticOverflow)
            ELSE last.ret = Err(InvalidBase62Byte(c, Len(b) - i))

====
